---- MODULE Spec2Model ----
(***************************************************************************)
(* A model of the reactive rendering runtime of clean-vue3:                *)
(*   - the reactivity core (track / trigger / reactive / effect),          *)
(*   - the virtual-DOM renderer (h / render / mount / patch and the        *)
(*     children diff algorithms) over a small model of the DOM backend.    *)
(* The reactivity core is modelled in small steps with an explicit call    *)
(* stack (JavaScript is single-threaded; calls nest synchronously).        *)
(* The renderer is modelled as operators that thread a machine state       *)
(* (DOM heap, operation log, exception flag) through the code's calls.     *)
(***************************************************************************)
EXTENDS Integers, Sequences, FiniteSets, TLC

VARIABLES
  \* ---- reactivity core (src/unnamed/part_001, lines 93-230)
  activeEffect,   \* the module-level slot `let activeEffect`
  targetMap,      \* dependency sets of the subject: key -> tasks in insertion order
  data,           \* the raw target object behind the proxy: key -> value
  created,        \* tasks for which effect(fn) has been called
  stack,          \* the JavaScript call stack: effectFn frames and trigger frames
  exc,            \* TRUE while an exception propagates up the stack
  everRead,       \* history: the keys each task has read in any execution
  ret,            \* history: summary of the write that has just returned
  note,           \* history: the top-level call that completed last
  \* ---- renderer (src/unnamed/part_000)
  dom,            \* the DOM heap: node id -> node
  container,      \* the container's stored tree (container._vnode), or NoVnode
  todo,           \* the trees the application will pass to render(), in order
  prev,           \* history: container._vnode before the last render call
  domBefore,      \* history: the DOM heap before the last render call
  newArg,         \* history: the tree handed to the last render call
  log,            \* history: backend calls issued by the last render call
  repl,           \* history: one record per kind-mismatch replacement of the last render
  threw,          \* history: whether the last render call threw
  rebound,        \* history: a descriptor already bound was bound to another node
  \* ---- component (src/unnamed/part_001, lines 26-90)
  app,            \* "none" before createApp is called, "created" after, "failed" if it threw
  currentVnode,   \* createApp's `let currentVnode`, or <<>> for null
  shown,          \* history: the tree most recently displayed in the container
  call,           \* history: the entry point called last
  view            \* the component's render function: value of state.f -> tree

rvars == <<activeEffect, targetMap, data, created, stack, exc, everRead, ret, note>>
dvars == <<dom, container, todo, prev, domBefore, newArg, log, repl, threw, rebound,
          app, currentVnode, shown, call, view>>
vars == <<activeEffect, targetMap, data, created, stack, exc, everRead, ret, note,
          dom, container, todo, prev, domBefore, newArg, log, repl, threw, rebound,
          app, currentVnode, shown, call, view>>

----------------------------------------------------------------------------
\* Bounds of the model.
MaxDepth == 4     \* call-stack frames before the engine raises RangeError
MaxOps == 2       \* reactive reads/writes one execution of a task body performs
MaxKids == 3      \* children of the rendered root, and the keys 1..MaxKids

\* `null` of the activeEffect slot.
Null == "null"

\* The effect functions the application creates.
Tasks == {"T", "U"}
Fields == {"f", "g"}
Values == {0, 1}

\* ---- generic helpers
Last(s) == s[Len(s)]
Front(s) == SubSeq(s, 1, Len(s) - 1)
Range(s) == {s[i] : i \in 1..Len(s)}
NoDup(s) == \A i, j \in 1..Len(s) : s[i] = s[j] => i = j

----------------------------------------------------------------------------
(***************************************************************************)
(* Reactivity core                                                         *)
(***************************************************************************)

\* track as it would be with an array instead of a Set (no dedup).
trackNoDedup(tm, ae, key) ==
  IF ae = Null THEN tm ELSE [tm EXCEPT ![key] = Append(@, ae)]

\* track without the `if (!activeEffect) return` and attributing to any task.
trackLeaky(tm, ae, key) ==
  [k \in Fields |-> IF ae = Null \/ ae \in Range(tm[k]) THEN tm[k] ELSE Append(tm[k], ae)]

\* track with a dependency set that holds one task at most.
trackFirstOnly(tm, ae, key) ==
  IF ae = Null \/ tm[key] # <<>> THEN tm ELSE [tm EXCEPT ![key] = Append(@, ae)]

\* track with `deps = new Set([activeEffect])` in place of deps.add.
trackReplace(tm, ae, key) ==
  IF ae = Null THEN tm ELSE [tm EXCEPT ![key] = <<ae>>]

\* track(target, key): no-op without a current effect; otherwise deps.add(activeEffect)
\* (a Set: insertion-ordered, adding a member again changes nothing).
track(tm, ae, key) ==
  IF ae = Null THEN tm
  ELSE IF ae \in Range(tm[key]) THEN tm
  ELSE [tm EXCEPT ![key] = Append(@, ae)]

\* The summary of a write that directly preceded, when there is none.
NoWrite == [kind |-> "none", key |-> "", snap |-> {}, once |-> {}]

\* A frame of effectFn: the saved prevEffect and how far the body has run.
\* reads is history: the keys this execution has read so far.
EffectFrame(t, saved) ==
  [kind |-> "effect", task |-> t, prevEffect |-> saved, nops |-> 0,
   key |-> "", i |-> 0, snap |-> {}, cnt |-> [x \in Tasks |-> 0], dirty |-> FALSE,
   reads |-> {}, stale |-> {}, order |-> <<>>, before |-> <<>>, val |-> 0,
   prevw |-> NoWrite]

\* A frame of trigger's deps.forEach: the key and the position in the Set.
\* snap / cnt / dirty are history: the dependency set when the write began, the
\* executions of each task completed since (counted up to 2), and whether a task
\* body wrote since. The other fields are history too: order is the tasks this
\* forEach has invoked so far; stale is the member, if any, whose execution
\* returned just before the write without having read the key; before / val
\* are the target before a write from outside and the value written (kept
\* until a task body writes); prevw is the summary of the write from outside
\* that returned just before this one began, if it wrote another key some
\* member depended on and no task body wrote during it: its key, the
\* dependency set when it began, and the members that ran once.
TriggerFrame(k, deps, v, last) ==
  [kind |-> "trigger", task |-> Null, prevEffect |-> Null, nops |-> 0,
   key |-> k, i |-> 1, snap |-> Range(deps), cnt |-> [x \in Tasks |-> 0], dirty |-> FALSE,
   reads |-> {}, order |-> <<>>,
   stale |-> IF last.kind = "ran" /\ last.task \in Range(deps) /\ k \notin last.reads
               THEN {last.task} ELSE {},
   before |-> IF stack = <<>> THEN data ELSE <<>>,
   val |-> IF stack = <<>> THEN v ELSE 0,
   prevw |-> IF /\ stack = <<>> /\ last.kind = "returned" /\ ~last.dirty
                   /\ last.key # k /\ last.snap \cap Range(deps) # {}
               THEN [kind |-> "returned", key |-> last.key, snap |-> last.snap,
                     once |-> {t \in last.snap : last.cnt[t] = 1}]
               ELSE NoWrite]

NoRet ==
  [kind |-> "none", key |-> "", snap |-> {}, cnt |-> [x \in Tasks |-> 0], dirty |-> FALSE,
   stale |-> {}, order |-> <<>>, prevw |-> NoWrite, task |-> Null, reads |-> {}]

\* The engine's call stack is exhausted: the call raises RangeError.
RangeError == [NoRet EXCEPT !.kind = "rangeError"]

Idle == stack = <<>> /\ ~exc

\* The finally block without the restore.
restoreNever(fr, ae) == ae

\* The finally block of effectFn: activeEffect = prevEffect.
restore(fr, ae) == fr.prevEffect

\* Line 212 with the wrapper of an outer task kept in the slot.
enterKeepOuter(t, ae) == IF ae = Null THEN t ELSE ae

\* Line 212, `activeEffect = effectFn`.
enter(t, ae) == t

\* Calling effectFn for task t: prevEffect = activeEffect; activeEffect = effectFn;
\* then fn() runs. At the stack limit the call raises RangeError instead.
CallEffect(t, stk) ==
  IF Len(stk) >= MaxDepth
    THEN /\ exc' = TRUE
         /\ stack' = stk
         /\ activeEffect' = activeEffect
         /\ ret' = RangeError
    ELSE /\ exc' = FALSE
         /\ stack' = Append(stk, EffectFrame(t, activeEffect))
         /\ activeEffect' = enter(t, activeEffect)
         /\ ret' = NoRet

\* effect(fn): build the wrapper and run it once immediately.
Effect(t) ==
  /\ Idle
  /\ t \notin created
  /\ created' = created \cup {t}
  /\ CallEffect(t, stack)
  /\ note' = "effect"
  /\ UNCHANGED <<targetMap, data, everRead>>
  /\ UNCHANGED dvars

\* The application calls the wrapper returned by effect() again.
RunEffect(t) ==
  /\ Idle
  /\ t \in created
  /\ CallEffect(t, stack)
  /\ note' = "effect"
  /\ UNCHANGED <<targetMap, data, created, everRead>>
  /\ UNCHANGED dvars

\* Proxy get trap called outside any task: track(target, key), then the value.
Get(k) ==
  /\ Idle
  /\ targetMap' = track(targetMap, activeEffect, k)
  /\ note' = IF note \in {"effectThrew", "readAfterThrow"} THEN "readAfterThrow" ELSE "read"
  /\ ret' = NoRet
  /\ UNCHANGED <<activeEffect, data, created, stack, exc, everRead>>
  /\ UNCHANGED dvars

\* Reflect.set(target, key, value, receiver) in the set trap.
reflectSet(d, k, v) == [d EXCEPT ![k] = v]

\* Entering trigger(target, key) from the set trap.
CallTrigger(k, v, stk) ==
  IF Len(stk) >= MaxDepth
    THEN /\ exc' = TRUE
         /\ stack' = stk
         /\ ret' = RangeError
    ELSE /\ exc' = FALSE
         /\ stack' = Append(stk, TriggerFrame(k, targetMap[k], v, ret))
         /\ ret' = NoRet

\* Proxy set trap called outside any task: Reflect.set, then trigger(target, key).
Set(k, v) ==
  /\ Idle
  /\ data' = reflectSet(data, k, v)
  /\ CallTrigger(k, v, stack)
  /\ note' = IF data[k] = v THEN "writeSame" ELSE "write"
  /\ UNCHANGED <<activeEffect, targetMap, created, everRead>>
  /\ UNCHANGED dvars

Running == stack # <<>> /\ ~exc /\ Last(stack).kind = "effect"

Bump(fr) == [fr EXCEPT !.nops = @ + 1]

\* The running task body reads state[k] through the proxy.
BodyGet(k) ==
  /\ Running
  /\ Last(stack).nops < MaxOps
  /\ targetMap' = track(targetMap, activeEffect, k)
  /\ everRead' = [everRead EXCEPT ![Last(stack).task] = @ \cup {k}]
  /\ stack' = Append(Front(stack), [Bump(Last(stack)) EXCEPT !.reads = @ \cup {k}])
  /\ ret' = NoRet
  /\ UNCHANGED <<activeEffect, data, created, exc, note>>
  /\ UNCHANGED dvars

\* The running task body writes state[k] = v through the proxy.
BodySet(k, v) ==
  /\ Running
  /\ Last(stack).nops < MaxOps
  /\ data' = reflectSet(data, k, v)
  /\ LET marked == [j \in 1..Len(stack) |->
                      IF j = Len(stack) THEN Bump(stack[j])
                      ELSE [stack[j] EXCEPT !.dirty = TRUE, !.before = <<>>, !.val = 0]]
     IN CallTrigger(k, v, marked)
  /\ UNCHANGED <<activeEffect, targetMap, created, everRead, note>>
  /\ UNCHANGED dvars

\* The running task body throws.
BodyThrow ==
  /\ Running
  /\ exc' = TRUE
  /\ ret' = NoRet
  /\ UNCHANGED <<activeEffect, targetMap, data, created, stack, everRead, note>>
  /\ UNCHANGED dvars

\* fn() returns: the finally block restores activeEffect and effectFn returns.
BodyReturn ==
  /\ Running
  /\ LET fr == Last(stack)
         counted == [j \in 1..(Len(stack) - 1) |->
                       IF stack[j].kind = "trigger"
                         THEN [stack[j] EXCEPT !.cnt[fr.task] = IF @ < 2 THEN @ + 1 ELSE @]
                         ELSE stack[j]]
     IN /\ activeEffect' = restore(fr, activeEffect)
        /\ stack' = counted
        /\ note' = IF Len(stack) = 1 THEN "effectReturned" ELSE note
        /\ ret' = [NoRet EXCEPT !.kind = "ran", !.task = fr.task, !.reads = fr.reads]
  /\ UNCHANGED <<targetMap, data, created, exc, everRead>>
  /\ UNCHANGED dvars

InTrigger == stack # <<>> /\ ~exc /\ Last(stack).kind = "trigger"

\* forEach stopping after the first member of the Set.
forEachFirstOnly(fr, tm) == fr.i > 1 \/ fr.i > Len(tm[fr.key])

\* forEach stopping at a member that already ran for the preceding write of the
\* burst (writes coalesced).
forEachCoalesced(fr, tm) ==
  IF fr.i > Len(tm[fr.key]) THEN TRUE ELSE tm[fr.key][fr.i] \in fr.prevw.once

\* deps.forEach has visited every member of the live Set.
forEachDone(fr, tm) == fr.i > Len(tm[fr.key])

\* forEach visiting the members last first.
forEachNextReversed(fr, tm) == tm[fr.key][Len(tm[fr.key]) + 1 - fr.i]

\* The member deps.forEach visits next: Set iteration is in insertion order.
forEachNext(fr, tm) == tm[fr.key][fr.i]

\* One turn of deps.forEach(effect => effect()): the next member of the live Set
\* (members added during the iteration are visited too).
TriggerNext ==
  /\ InTrigger
  /\ ~forEachDone(Last(stack), targetMap)
  /\ LET fr == Last(stack)
         advanced == Append(Front(stack),
                            [fr EXCEPT !.i = @ + 1,
                                       !.order = Append(@, forEachNext(fr, targetMap))])
     IN CallEffect(forEachNext(fr, targetMap), advanced)
  /\ UNCHANGED <<targetMap, data, created, everRead, note>>
  /\ UNCHANGED dvars

\* forEach is exhausted: trigger returns and the set trap returns.
TriggerReturn ==
  /\ InTrigger
  /\ forEachDone(Last(stack), targetMap)
  /\ stack' = Front(stack)
  /\ ret' = [NoRet EXCEPT !.kind = "returned", !.key = Last(stack).key,
                          !.snap = Last(stack).snap, !.cnt = Last(stack).cnt,
                          !.dirty = Last(stack).dirty, !.stale = Last(stack).stale,
                          !.order = Last(stack).order, !.prevw = Last(stack).prevw]
  /\ note' = IF Len(stack) > 1 THEN note
             ELSE IF note = "writeSame" THEN "writeSameReturned" ELSE "writeReturned"
  /\ UNCHANGED <<activeEffect, targetMap, data, created, exc, everRead>>
  /\ UNCHANGED dvars

\* The exception leaves the top frame: an effectFn frame runs its finally block,
\* a trigger frame has no handler. With the stack empty it reaches the caller.
Unwind ==
  /\ exc
  /\ stack # <<>>
  /\ stack' = Front(stack)
  /\ activeEffect' = IF Last(stack).kind = "effect"
                       THEN restore(Last(stack), activeEffect)
                       ELSE activeEffect
  /\ exc' = (Len(stack) > 1)
  /\ note' = IF Len(stack) > 1 THEN note
             ELSE IF note = "effect" THEN "effectThrew" ELSE "writeThrew"
  /\ ret' = IF ret.kind = "rangeError" THEN ret ELSE NoRet
  /\ UNCHANGED <<targetMap, data, created, everRead>>
  /\ UNCHANGED dvars

InitReactive ==
  /\ activeEffect = Null
  /\ targetMap = [k \in Fields |-> <<>>]
  /\ data = [k \in Fields |-> 0]
  /\ created = {}
  /\ stack = <<>>
  /\ exc = FALSE
  /\ everRead = [t \in Tasks |-> {}]
  /\ ret = NoRet
  /\ note = "none"
  \* no tree is rendered
  /\ dom = <<>>
  /\ container = <<>>
  /\ todo = <<>>
  /\ prev = <<>>
  /\ domBefore = <<>>
  /\ newArg = <<>>
  /\ log = <<>>
  /\ repl = <<>>
  /\ threw = FALSE
  /\ rebound = FALSE
  /\ app = "none"
  /\ currentVnode = <<>>
  /\ shown = <<>>
  /\ call = "none"
  /\ view = <<>>

NextReactive ==
  \/ \E t \in Tasks : Effect(t)
  \/ \E t \in Tasks : RunEffect(t)
  \/ \E k \in Fields : Get(k)
  \/ \E k \in Fields, v \in Values : Set(k, v)
  \/ \E k \in Fields : BodyGet(k)
  \/ \E k \in Fields, v \in Values : BodySet(k, v)
  \/ BodyThrow
  \/ BodyReturn
  \/ TriggerNext
  \/ TriggerReturn
  \/ Unwind

SpecReactive == InitReactive /\ [][NextReactive]_vars

----------------------------------------------------------------------------
(***************************************************************************)
(* DOM backend: a heap of nodes. dom[id] is the node with that id; node 1  *)
(* is the container element the application passes to render().            *)
(***************************************************************************)

\* `undefined`: a missing property (props.key of an unkeyed node, oldProps[key]).
Undefined == 0
\* `el: null`, and also a null parentNode / nextSibling.
NoEl == 0
\* The container element handed to render().
ContainerEl == 1

EmptyProps == [n \in {} |-> 0]

Node(tag, text) ==
  [tag |-> tag, text |-> text, attrs |-> EmptyProps, lis |-> {}, kids |-> <<>>,
   parent |-> NoEl]

\* One backend call, as recorded in the log.
Op(o, e, x, n, v, t) ==
  [op |-> o, el |-> e, other |-> x, name |-> n, val |-> v, text |-> t]

\* The machine state the renderer's calls thread through: the heap, the calls
\* issued so far, whether an exception is propagating, and (history) the
\* kind-mismatch replacements performed and whether an assignment to vnode.el
\* changed a binding that was already there.
Machine(nodes) ==
  [nodes |-> nodes, log |-> <<>>, err |-> FALSE, repl |-> <<>>, rebound |-> FALSE]

\* `vnode.el = el`: the assignment of lines 89 and 151.
bind(M, vnode, el) ==
  IF vnode.el # NoEl /\ vnode.el # el THEN [M EXCEPT !.rebound = TRUE] ELSE M

\* An exception is thrown: nothing after it executes.
Fail(M) == [M EXCEPT !.err = TRUE]

Remove(s, x) == LET Keep(y) == y # x IN SelectSeq(s, Keep)
IndexOf(s, x) == CHOOSE i \in 1..Len(s) : s[i] = x
InsertAt(s, i, x) == SubSeq(s, 1, i - 1) \o <<x>> \o SubSeq(s, i, Len(s))

\* A node leaves its current parent, if it has one.
Detach(nodes, c) ==
  IF nodes[c].parent = NoEl THEN nodes
  ELSE [nodes EXCEPT ![nodes[c].parent].kids = Remove(@, c), ![c].parent = NoEl]

\* el.nextSibling
nextSibling(nodes, c) ==
  LET p == nodes[c].parent
  IN IF p = NoEl THEN NoEl
     ELSE LET i == IndexOf(nodes[p].kids, c)
          IN IF i < Len(nodes[p].kids) THEN nodes[p].kids[i + 1] ELSE NoEl

\* container.childNodes[i] for a 0-based i; NoEl when out of range.
childNodes(nodes, p, i) ==
  IF i + 1 <= Len(nodes[p].kids) THEN nodes[p].kids[i + 1] ELSE NoEl

createElement(M, tag) ==
  IF M.err THEN M
  ELSE [M EXCEPT !.nodes = Append(@, Node(tag, "")),
                 !.log = Append(@, Op("createElement", Len(M.nodes) + 1, NoEl, tag, 0, ""))]

createTextNode(M, text) ==
  IF M.err THEN M
  ELSE [M EXCEPT !.nodes = Append(@, Node("#text", text)),
                 !.log = Append(@, Op("createTextNode", Len(M.nodes) + 1, NoEl, "", 0, text))]

setAttribute(M, el, name, val) ==
  IF M.err THEN M
  ELSE [M EXCEPT !.nodes[el].attrs =
                    [n \in DOMAIN @ \cup {name} |-> IF n = name THEN val ELSE @[n]],
                 !.log = Append(@, Op("setAttribute", el, NoEl, name, val, ""))]

removeAttribute(M, el, name) ==
  IF M.err THEN M
  ELSE [M EXCEPT !.nodes[el].attrs = [n \in DOMAIN @ \ {name} |-> @[n]],
                 !.log = Append(@, Op("removeAttribute", el, NoEl, name, 0, ""))]

addEventListener(M, el, ev, fn) ==
  IF M.err THEN M
  ELSE [M EXCEPT !.nodes[el].lis = @ \cup {<<ev, fn>>},
                 !.log = Append(@, Op("addEventListener", el, NoEl, ev, fn, ""))]

removeEventListener(M, el, ev, fn) ==
  IF M.err THEN M
  ELSE [M EXCEPT !.nodes[el].lis = @ \ {<<ev, fn>>},
                 !.log = Append(@, Op("removeEventListener", el, NoEl, ev, fn, ""))]

\* parent.appendChild(child): the child leaves its old parent and becomes last.
appendChild(M, p, c) ==
  IF M.err THEN M
  ELSE IF p = NoEl \/ c = NoEl THEN Fail(M)
  ELSE LET n1 == Detach(M.nodes, c)
       IN [M EXCEPT !.nodes = [n1 EXCEPT ![p].kids = Append(@, c), ![c].parent = p],
                    !.log = Append(@, Op("appendChild", p, c, "", 0, ""))]

\* parent.insertBefore(child, ref): NotFoundError unless ref is a child of parent.
insertBefore(M, p, c, ref) ==
  IF M.err THEN M
  ELSE IF p = NoEl \/ c = NoEl THEN Fail(M)
  ELSE IF M.nodes[ref].parent # p THEN Fail(M)
  ELSE LET logged == [M EXCEPT !.log = Append(@, Op("insertBefore", p, c, "", 0, ""))]
       IN IF c = ref THEN logged
          ELSE LET n1 == Detach(M.nodes, c)
                   at == IndexOf(n1[p].kids, ref)
               IN [logged EXCEPT !.nodes =
                     [n1 EXCEPT ![p].kids = InsertAt(@, at, c), ![c].parent = p]]

\* parent.removeChild(child): TypeError on a null parent or child, NotFoundError
\* when child is not a child of parent.
removeChild(M, p, c) ==
  IF M.err THEN M
  ELSE IF p = NoEl \/ c = NoEl THEN Fail(M)
  ELSE IF M.nodes[c].parent # p THEN Fail(M)
  ELSE [M EXCEPT !.nodes = Detach(M.nodes, c),
                 !.log = Append(@, Op("removeChild", p, c, "", 0, ""))]

\* textNode.textContent = text (TypeError when the node is undefined).
setTextContent(M, el, text) ==
  IF M.err THEN M
  ELSE IF el = NoEl THEN Fail(M)
  ELSE [M EXCEPT !.nodes[el].text = text,
                 !.log = Append(@, Op("textContent", el, NoEl, "", 0, text))]

----------------------------------------------------------------------------
(***************************************************************************)
(* Renderer                                                                *)
(***************************************************************************)

\* Attribute names in the order `for (const key in props)` visits them.
PropOrder == <<"key", "a", "b", "onClick">>

\* key.startsWith('on')
startsWithOn(name) == name \in {"onClick"}

\* key.slice(2).toLowerCase()
eventName(name) == IF name = "onClick" THEN "click" ELSE name

\* A text child: a JavaScript string in a children array.
Text(t) ==
  [tag |-> "#text", text |-> t, props |-> EmptyProps, children |-> <<>>,
   key |-> Undefined, el |-> NoEl]

\* typeof child === 'string'
IsText(c) == c.tag = "#text"

\* h(tag, props, children): key is props.key, el starts null.
h(tag, props, children) ==
  [tag |-> tag, text |-> "", props |-> props, children |-> children,
   key |-> IF "key" \in DOMAIN props THEN props["key"] ELSE Undefined,
   el |-> NoEl]

RECURSIVE mount(_, _, _)
RECURSIVE mountChildren(_, _, _, _, _)
RECURSIVE mountProps(_, _, _, _)

\* mount, lines 92-103: every prop becomes a listener or an attribute.
mountProps(M, el, props, i) ==
  IF i > Len(PropOrder) THEN M
  ELSE LET name == PropOrder[i]
           M1 == IF name \notin DOMAIN props THEN M
                 ELSE IF startsWithOn(name)
                   THEN addEventListener(M, el, eventName(name), props[name])
                   ELSE setAttribute(M, el, name, props[name])
       IN mountProps(M1, el, props, i + 1)

\* mount, lines 106-116: a string child becomes a text node, a vnode is mounted.
mountChildren(M, el, ch, i, acc) ==
  IF i > Len(ch) THEN [m |-> M, ch |-> acc]
  ELSE IF IsText(ch[i])
    THEN LET M1 == createTextNode(M, ch[i].text)
             M2 == appendChild(M1, el, Len(M.nodes) + 1)
         IN mountChildren(M2, el, ch, i + 1, Append(acc, ch[i]))
    ELSE LET r == mount(M, ch[i], el)
         IN mountChildren(r.m, el, ch, i + 1, Append(acc, r.v))

\* mount(vnode, container). Called with a string (from the children diffs) it
\* creates an element for the tag `undefined` and then fails on `vnode.el = el`:
\* the file is an ES module, hence strict, and a primitive takes no property.
mount(M, vnode, parent) ==
  IF M.err THEN [m |-> M, v |-> vnode]
  ELSE IF IsText(vnode) THEN [m |-> Fail(createElement(M, "undefined")), v |-> vnode]
  ELSE LET el == Len(M.nodes) + 1
           M1 == bind(createElement(M, vnode.tag), vnode, el)
           M2 == mountProps(M1, el, vnode.props, 1)
           r == mountChildren(M2, el, vnode.children, 1, <<>>)
       IN [m |-> appendChild(r.m, parent, el),
           v |-> [vnode EXCEPT !.el = el, !.children = r.ch]]

RECURSIVE patchPropsNew(_, _, _, _, _)
RECURSIVE patchPropsOld(_, _, _, _, _)

\* The comparison of line 174 never finding the values equal.
sameValueNever(oldValue, newValue) == FALSE

\* Line 174: `oldValue === newValue`.
sameValue(oldValue, newValue) == oldValue = newValue

\* patchProps, lines 169-187: names of the new props.
patchPropsNew(M, el, oldProps, newProps, i) ==
  IF i > Len(PropOrder) THEN M
  ELSE LET name == PropOrder[i]
           oldValue == IF name \in DOMAIN oldProps THEN oldProps[name] ELSE Undefined
           M1 == IF name \notin DOMAIN newProps THEN M
                 ELSE IF sameValue(oldValue, newProps[name]) THEN M
                 ELSE IF startsWithOn(name)
                   THEN addEventListener(
                          IF oldValue # Undefined
                            THEN removeEventListener(M, el, eventName(name), oldValue)
                            ELSE M,
                          el, eventName(name), newProps[name])
                   ELSE setAttribute(M, el, name, newProps[name])
       IN patchPropsNew(M1, el, oldProps, newProps, i + 1)

\* patchProps, lines 190-199: names of the old props missing from the new.
patchPropsOld(M, el, oldProps, newProps, i) ==
  IF i > Len(PropOrder) THEN M
  ELSE LET name == PropOrder[i]
           M1 == IF name \notin DOMAIN oldProps \/ name \in DOMAIN newProps THEN M
                 ELSE IF startsWithOn(name)
                   THEN removeEventListener(M, el, eventName(name), oldProps[name])
                   ELSE removeAttribute(M, el, name)
       IN patchPropsOld(M1, el, oldProps, newProps, i + 1)

\* patchProps(el, oldProps, newProps)
patchProps(M, el, oldProps, newProps) ==
  patchPropsOld(patchPropsNew(M, el, oldProps, newProps, 1), el, oldProps, newProps, 1)

\* hasKeyedChildren(children)
hasKeyedChildren(children) ==
  \E i \in 1..Len(children) : ~IsText(children[i]) /\ children[i].key # Undefined

\* findAnchor: the bound node of the first matched new child after targetIndex
\* that has one, or null. Indices are 1-based here.
findAnchor(targetIndex, newChildren, newIndices) ==
  LET ok == {i \in (targetIndex + 1)..Len(newChildren) :
               i \in newIndices /\ ~IsText(newChildren[i]) /\ newChildren[i].el # NoEl}
  IN IF ok = {} THEN NoEl
     ELSE newChildren[CHOOSE i \in ok : \A j \in ok : i <= j].el

\* keyToNewIndexMap.get(key): the last new child carrying the key (Map.set
\* overwrites), 0 for `undefined`. Indices are 1-based here.
keyToNewIndex(newChildren, key) ==
  LET has == {i \in 1..Len(newChildren) :
                ~IsText(newChildren[i]) /\ newChildren[i].key # Undefined
                /\ newChildren[i].key = key}
  IN IF has = {} THEN 0 ELSE CHOOSE i \in has : \A j \in has : j <= i

RECURSIVE patch(_, _, _)
RECURSIVE patchChildren(_, _, _, _)
RECURSIVE patchUnkeyedCommon(_, _, _, _, _)
RECURSIVE patchUnkeyedAdd(_, _, _, _)
RECURSIVE patchUnkeyedRemove(_, _, _, _, _)
RECURSIVE patchKeyedMatch(_, _, _, _)
RECURSIVE patchKeyedMove(_, _, _, _, _)
RECURSIVE patchKeyedInsert(_, _, _)

\* patchUnkeyedChildren, lines 275-296: the common prefix. S = [m, ch].
patchUnkeyedCommon(S, oldChildren, commonLength, el, i) ==
  IF i >= commonLength \/ S.m.err THEN S
  ELSE LET oldChild == oldChildren[i + 1]
           newChild == S.ch[i + 1]
       IN IF IsText(oldChild) /\ IsText(newChild)
            THEN patchUnkeyedCommon(
                   [S EXCEPT !.m = IF oldChild.text # newChild.text
                                     THEN setTextContent(S.m, childNodes(S.m.nodes, el, i),
                                                         newChild.text)
                                     ELSE S.m],
                   oldChildren, commonLength, el, i + 1)
          ELSE IF ~IsText(oldChild) /\ ~IsText(newChild)
            THEN LET r == patch(S.m, oldChild, newChild)
                 IN patchUnkeyedCommon([m |-> r.m, ch |-> [S.ch EXCEPT ![i + 1] = r.v]],
                                       oldChildren, commonLength, el, i + 1)
          ELSE LET oldEl == IF IsText(oldChild) THEN childNodes(S.m.nodes, el, i)
                            ELSE oldChild.el
                   r == mount(removeChild(S.m, el, oldEl), newChild, el)
               IN patchUnkeyedCommon([m |-> r.m, ch |-> [S.ch EXCEPT ![i + 1] = r.v]],
                                     oldChildren, commonLength, el, i + 1)

\* patchUnkeyedChildren, lines 299-303: extra new children are mounted.
patchUnkeyedAdd(S, newLength, el, i) ==
  IF i >= newLength \/ S.m.err THEN S
  ELSE LET r == mount(S.m, S.ch[i + 1], el)
       IN patchUnkeyedAdd([m |-> r.m, ch |-> [S.ch EXCEPT ![i + 1] = r.v]],
                          newLength, el, i + 1)

\* The removal loop stopping after the last old child.
patchUnkeyedRemoveLastOnly(M, oldChildren, commonLength, el, i) ==
  IF i < commonLength \/ M.err THEN M
  ELSE removeChild(M, el, IF IsText(oldChildren[i + 1]) THEN childNodes(M.nodes, el, i)
                          ELSE oldChildren[i + 1].el)

\* patchUnkeyedChildren, lines 306-314: extra old children are removed, last first.
patchUnkeyedRemove(M, oldChildren, commonLength, el, i) ==
  IF i < commonLength \/ M.err THEN M
  ELSE LET oldChild == oldChildren[i + 1]
           oldEl == IF IsText(oldChild) THEN childNodes(M.nodes, el, i) ELSE oldChild.el
       IN patchUnkeyedRemove(removeChild(M, el, oldEl), oldChildren, commonLength, el, i - 1)

\* patchUnkeyedChildren(oldChildren, newChildren, container)
patchUnkeyedChildren(M, oldChildren, newChildren, el) ==
  LET oldLength == Len(oldChildren)
      newLength == Len(newChildren)
      commonLength == IF oldLength < newLength THEN oldLength ELSE newLength
      S1 == patchUnkeyedCommon([m |-> M, ch |-> newChildren], oldChildren, commonLength, el, 0)
      S2 == IF newLength > oldLength THEN patchUnkeyedAdd(S1, newLength, el, commonLength)
            ELSE S1
  IN IF oldLength > newLength
       THEN [S2 EXCEPT !.m = patchUnkeyedRemove(@, oldChildren, commonLength, el, oldLength - 1)]
       ELSE S2

\* patchKeyedChildren, lines 349-375: match old keyed children to new ones by
\* key and patch each pair; remove old keyed children whose key is gone.
\* S = [m, ch, o2n, matched]: o2n is oldIndexToNewIndexMap (0: no entry),
\* matched is newIndices. Indices are 1-based here.
patchKeyedMatch(S, oldChildren, el, oldIndex) ==
  IF oldIndex > Len(oldChildren) \/ S.m.err THEN S
  ELSE LET oldChild == oldChildren[oldIndex]
       IN IF IsText(oldChild) \/ oldChild.key = Undefined
            THEN patchKeyedMatch(S, oldChildren, el, oldIndex + 1)
          ELSE LET newIndex == keyToNewIndex(S.ch, oldChild.key)
               IN IF newIndex # 0
                    THEN LET r == patch(S.m, oldChild, S.ch[newIndex])
                         IN patchKeyedMatch(
                              [m |-> r.m, ch |-> [S.ch EXCEPT ![newIndex] = r.v],
                               o2n |-> [S.o2n EXCEPT ![oldIndex] = newIndex],
                               matched |-> S.matched \cup {newIndex}],
                              oldChildren, el, oldIndex + 1)
                    ELSE patchKeyedMatch([S EXCEPT !.m = removeChild(@, el, oldChild.el)],
                                         oldChildren, el, oldIndex + 1)

\* Line 388: `newIndex > lastMovedIndex` means "already in order, do not move".
inOrder(newIndex, lastMovedIndex) == newIndex > lastMovedIndex

\* patchKeyedChildren, lines 379-399: walk the old children from the last to
\* the first and move the matched ones judged out of order before their anchor.
\* lastMovedIndex starts at -1 for 0-based indices, 0 for the 1-based ones here.
patchKeyedMove(S, oldChildren, el, oldIndex, lastMovedIndex) ==
  IF oldIndex < 1 \/ S.m.err THEN S
  ELSE IF S.o2n[oldIndex] = 0
    THEN patchKeyedMove(S, oldChildren, el, oldIndex - 1, lastMovedIndex)
  ELSE LET newIndex == S.o2n[oldIndex]
           oldChild == oldChildren[oldIndex]
       IN IF inOrder(newIndex, lastMovedIndex)
            THEN patchKeyedMove(S, oldChildren, el, oldIndex - 1, newIndex)
            ELSE LET anchor == findAnchor(newIndex, S.ch, S.matched)
                     M1 == IF anchor # NoEl THEN insertBefore(S.m, el, oldChild.el, anchor)
                           ELSE appendChild(S.m, el, oldChild.el)
                 IN patchKeyedMove([S EXCEPT !.m = M1], oldChildren, el, oldIndex - 1,
                                   lastMovedIndex)


\* Lines 406-411: a freshly mounted child goes before its anchor, if there is one.
placeNew(M, el, newEl, anchor) ==
  IF anchor # NoEl THEN insertBefore(M, el, newEl, anchor) ELSE M

\* patchKeyedChildren, lines 402-413: mount the unmatched new children.
patchKeyedInsert(S, el, newIndex) ==
  IF newIndex > Len(S.ch) \/ S.m.err THEN S
  ELSE IF newIndex \in S.matched THEN patchKeyedInsert(S, el, newIndex + 1)
  ELSE LET anchor == findAnchor(newIndex, S.ch, S.matched)
           r == mount(S.m, S.ch[newIndex], el)
       IN patchKeyedInsert(
            [S EXCEPT !.m = placeNew(r.m, el, r.v.el, anchor), !.ch[newIndex] = r.v],
            el, newIndex + 1)

\* patchKeyedChildren(oldChildren, newChildren, container)
patchKeyedChildren(M, oldChildren, newChildren, el) ==
  LET S0 == [m |-> M, ch |-> newChildren, o2n |-> [i \in 1..Len(oldChildren) |-> 0],
             matched |-> {}]
      S1 == patchKeyedMatch(S0, oldChildren, el, 1)
      S2 == patchKeyedMove(S1, oldChildren, el, Len(oldChildren), 0)
      S3 == patchKeyedInsert(S2, el, 1)
  IN [m |-> S3.m, ch |-> S3.ch]

\* patchChildren(oldVnode, newVnode, container). h() always stores an array, so
\* the two bare-string branches (lines 223-239) are not reached.
patchChildren(M, oldVnode, newVnode, el) ==
  IF hasKeyedChildren(newVnode.children)
    THEN patchKeyedChildren(M, oldVnode.children, newVnode.children, el)
    ELSE patchUnkeyedChildren(M, oldVnode.children, newVnode.children, el)


\* Lines 142-146: put the freshly mounted node back at the old node's position.
replaceAt(M, parent, newEl, next) ==
  IF next # NoEl THEN insertBefore(M, parent, newEl, next)
  ELSE appendChild(M, parent, newEl)

\* patch(oldVnode, newVnode): returns the machine and newVnode with its bound
\* nodes. A replacement is also recorded in repl (history): the parent's
\* children before and after, for the claims about positions.
patch(M, oldVnode, newVnode) ==
  IF M.err THEN [m |-> M, v |-> newVnode]
  ELSE IF oldVnode.tag # newVnode.tag
    THEN LET parent == M.nodes[oldVnode.el].parent
             next == nextSibling(M.nodes, oldVnode.el)
             r == mount(removeChild(M, parent, oldVnode.el), newVnode, parent)
             M3 == replaceAt(r.m, parent, r.v.el, next)
             done == [M3 EXCEPT !.repl = Append(@,
                       IF M3.err
                         THEN [ok |-> FALSE, oldEl |-> oldVnode.el, newEl |-> NoEl,
                               tag |-> newVnode.tag, parent |-> parent,
                               before |-> <<>>, after |-> <<>>]
                         ELSE [ok |-> TRUE, oldEl |-> oldVnode.el, newEl |-> r.v.el,
                               tag |-> newVnode.tag, parent |-> parent,
                               before |-> M.nodes[parent].kids,
                               after |-> M3.nodes[parent].kids])]
         IN [m |-> done, v |-> r.v]
  ELSE LET el == oldVnode.el
           M1 == patchProps(bind(M, newVnode, el), el, oldVnode.props, newVnode.props)
           r == patchChildren(M1, oldVnode, newVnode, el)
       IN [m |-> r.m, v |-> [newVnode EXCEPT !.el = el, !.children = r.ch]]

\* render(vnode, container): patch against the stored tree if there is one,
\* mount otherwise, then store the tree. An exception leaves container._vnode
\* as it was. The application's next tree is the head of todo.
render(nodes, stored, vnode) ==
  LET store(r) == [m |-> r.m, v |-> r.v, stored |-> IF r.m.err THEN stored ELSE <<r.v>>]
  IN store(IF stored # <<>>
             THEN patch(Machine(nodes), stored[1], vnode)
             ELSE mount(Machine(nodes), vnode, ContainerEl))

\* A call of render(vnode, container) by the application.
Render ==
  /\ todo # <<>>
  /\ \E r \in {render(dom, container, Head(todo))} :
        /\ dom' = r.m.nodes
        /\ container' = r.stored
        /\ log' = r.m.log
        /\ repl' = r.m.repl
        /\ threw' = r.m.err
        /\ rebound' = (rebound \/ r.m.rebound)
        /\ newArg' = <<Head(todo)>>
        /\ shown' = IF r.m.err THEN shown ELSE <<r.v>>
  /\ prev' = container
  /\ domBefore' = dom
  /\ todo' = Tail(todo)
  /\ call' = "render"
  /\ UNCHANGED <<app, currentVnode, view>>
  /\ UNCHANGED rvars

\* ---- the trees the application renders
Texts == {"x", "y"}
AttrNames == {"a", "b", "onClick"}
AttrValues == {1, 2}

SeqsUpTo(S, n) == UNION {[1..m -> S] : m \in 0..n}

\* Keyed children: an li per key, and for key 1 also a p (the kind of a keyed
\* child may change between two renders).
KeyedKids ==
  {h("li", [n \in {"key"} |-> k], <<>>) : k \in 1..MaxKids}
    \cup {h("p", [n \in {"key"} |-> 1], <<>>)}
PlainKids == {h(t, EmptyProps, <<>>) : t \in {"li", "p"}}

\* Lists of keyed children with distinct keys.
KeyedLists ==
  {s \in SeqsUpTo(KeyedKids, MaxKids) : \A i, j \in 1..Len(s) : s[i].key = s[j].key => i = j}

\* Lists of two keyed children carrying the same key.
DupKeyLists == {<<a, b>> : a, b \in {c \in KeyedKids : c.key = 1}}

\* Lists of children without keys: elements mixed with one string, and lists
\* of strings only.
UnkeyedLists ==
  SeqsUpTo(PlainKids \cup {Text("x")}, MaxKids)
    \cup SeqsUpTo({Text(t) : t \in Texts}, MaxKids)

PropMaps == UNION {[D -> AttrValues] : D \in SUBSET AttrNames}

Trees ==
  {h("ul", EmptyProps, s) : s \in KeyedLists \cup DupKeyLists \cup UnkeyedLists}
    \cup {h("div", pr, <<>>) : pr \in PropMaps}

InitVdom ==
  /\ dom = <<Node("#container", "")>>
  /\ container = <<>>
  /\ todo \in {<<a, b>> : a, b \in Trees}
  /\ prev = <<>>
  /\ domBefore = <<>>
  /\ newArg = <<>>
  /\ log = <<>>
  /\ repl = <<>>
  /\ threw = FALSE
  /\ rebound = FALSE
  /\ app = "none"
  /\ currentVnode = <<>>
  /\ shown = <<>>
  /\ call = "none"
  /\ view = <<>>
  \* no task is created
  /\ activeEffect = Null
  /\ targetMap = [k \in Fields |-> <<>>]
  /\ data = [k \in Fields |-> 0]
  /\ created = {}
  /\ stack = <<>>
  /\ exc = FALSE
  /\ everRead = [t \in Tasks |-> {}]
  /\ ret = NoRet
  /\ note = "none"

NextVdom == Render

SpecVdom == InitVdom /\ [][NextVdom]_vars

----------------------------------------------------------------------------
(***************************************************************************)
(* Component: createApp wraps `update` in an effect. The render function   *)
(* reads state.f and returns the next tree of todo.                        *)
(***************************************************************************)
MaxRenders == 3   \* trees rendered in one run of the component model

\* The effect createApp creates, and the state field its render function reads.
AppTask == "T"
AppField == "f"

\* update(), lines 34-48, given the tree renderComponent returned: patch against
\* currentVnode if there is one, render into the container otherwise; then
\* currentVnode = newVnode. An exception leaves currentVnode as it was.
update(nodes, stored, cur, newVnode) ==
  LET assign(r) == [m |-> r.m, v |-> r.v, stored |-> r.stored,
                    cur |-> IF r.m.err THEN cur ELSE <<r.v>>]
      patched(r) == [m |-> r.m, v |-> r.v, stored |-> stored]
  IN IF cur # <<>>
       THEN assign(patched(patch(Machine(nodes), cur[1], newVnode)))
       ELSE assign(render(nodes, stored, newVnode))

\* What one execution of the effect `() => update()` does to the renderer's state.
RunUpdate ==
  \E r \in {update(dom, container, currentVnode, Head(todo))} :
     /\ dom' = r.m.nodes
     /\ container' = r.stored
     /\ currentVnode' = r.cur
     /\ log' = r.m.log
     /\ repl' = r.m.repl
     /\ threw' = r.m.err
     /\ rebound' = (rebound \/ r.m.rebound)
     /\ newArg' = <<Head(todo)>>
     /\ shown' = IF r.m.err THEN shown ELSE <<r.v>>
     /\ prev' = IF currentVnode # <<>> THEN currentVnode ELSE container
     /\ domBefore' = dom
     /\ todo' = Tail(todo)

\* createApp(component, container): the state becomes reactive and the effect
\* runs once: the render function reads state.f while the effect is current
\* (the effect is registered for f), update() displays the tree, and the
\* finally block restores activeEffect.
CreateApp ==
  /\ app = "none"
  /\ Idle
  /\ todo # <<>>
  /\ app' = "created"
  /\ created' = created \cup {AppTask}
  /\ targetMap' = track(targetMap, AppTask, AppField)
  /\ everRead' = [everRead EXCEPT ![AppTask] = @ \cup {AppField}]
  /\ RunUpdate
  /\ call' = "createApp"
  /\ UNCHANGED <<activeEffect, data, stack, exc, ret, note, view>>

\* state.f = v by the application: the property is set and trigger runs the
\* effect registered for f, which renders the component again.
AppWrite(v) ==
  /\ Idle
  /\ todo # <<>>
  /\ AppTask \in Range(targetMap[AppField])
  /\ data' = [data EXCEPT ![AppField] = v]
  /\ targetMap' = track(targetMap, AppTask, AppField)
  /\ RunUpdate
  /\ call' = "write"
  /\ UNCHANGED <<app, activeEffect, created, everRead, stack, exc, ret, note, view>>

\* The trees the component and the application render: lists of up to two
\* children without keys.
AppTrees == {h("ul", EmptyProps, s) : s \in SeqsUpTo(PlainKids, 2)}

InitApp ==
  /\ dom = <<Node("#container", "")>>
  /\ container = <<>>
  /\ todo \in [1..MaxRenders -> AppTrees]
  /\ prev = <<>>
  /\ domBefore = <<>>
  /\ newArg = <<>>
  /\ log = <<>>
  /\ repl = <<>>
  /\ threw = FALSE
  /\ rebound = FALSE
  /\ app = "none"
  /\ currentVnode = <<>>
  /\ shown = <<>>
  /\ call = "none"
  /\ view = <<>>
  /\ activeEffect = Null
  /\ targetMap = [k \in Fields |-> <<>>]
  /\ data = [k \in Fields |-> 0]
  /\ created = {}
  /\ stack = <<>>
  /\ exc = FALSE
  /\ everRead = [t \in Tasks |-> {}]
  /\ ret = NoRet
  /\ note = "none"

NextApp ==
  \/ CreateApp
  \/ \E v \in Values : AppWrite(v)
  \/ Render

SpecApp == InitApp /\ [][NextApp]_vars

----------------------------------------------------------------------------
(***************************************************************************)
(* A component whose render function writes the field it has just read:    *)
(*   render(state) { const n = state.f;                                    *)
(*                   if (n < MaxWrites) state.f = n + 1;                   *)
(*                   return view(n) }                                      *)
(* The write happens inside the effect that createApp wrapped around       *)
(* update(), so trigger runs that effect again before the render function  *)
(* of the outer execution has returned.                                    *)
(***************************************************************************)
MaxWrites == 1    \* the render function writes state.f while it is below this
MaxHeap == 9      \* no further state write once the DOM heap holds this many nodes

\* The application's state while one call from the outside and everything
\* nested in it runs: the DOM heap, container._vnode, currentVnode, state.f,
\* whether an exception is propagating, the number of update() calls that
\* reached their patch or render, and what the last of them did.
AppRun(f) ==
  [nodes |-> dom, stored |-> container, cur |-> currentVnode, f |-> f, err |-> FALSE,
   runs |-> 0, log |-> <<>>, repl |-> <<>>, rebound |-> FALSE, newArg |-> <<>>,
   prev |-> <<>>, domBefore |-> dom, shown |-> shown]

\* update(), lines 39-47, once renderComponent has returned `tree`.
applyUpdate(A, tree) ==
  LET done(r) ==
        [A EXCEPT !.nodes = r.m.nodes, !.stored = r.stored, !.cur = r.cur,
                  !.err = r.m.err, !.runs = @ + 1, !.log = r.m.log, !.repl = r.m.repl,
                  !.rebound = (@ \/ r.m.rebound), !.newArg = <<tree>>,
                  !.prev = IF A.cur # <<>> THEN A.cur ELSE A.stored,
                  !.domBefore = A.nodes,
                  !.shown = IF r.m.err THEN @ ELSE <<r.v>>]
  IN done(update(A.nodes, A.stored, A.cur, tree))

RECURSIVE runEffect(_, _)
RECURSIVE runTrigger(_, _)
RECURSIVE renderComponent(_, _, _)

\* update(), lines 34-48: const newVnode = renderComponent(instance), and only
\* when that has returned the patch or render and the assignment of
\* currentVnode. n is the value the render function read.
updateAfterRender(A, n) == IF A.err THEN A ELSE applyUpdate(A, view[n])

\* effectFn of the effect `() => update()`; depth is the number of frames
\* already on the call stack.
runEffect(A, depth) ==
  IF depth >= MaxDepth
    THEN [A EXCEPT !.err = TRUE]
    ELSE updateAfterRender(renderComponent(A, A.f, depth + 1), A.f)

\* instance.render(instance.state): the render function has read n from
\* state.f; below MaxWrites it assigns n + 1, and the set trap stores the value
\* and calls trigger.
renderComponent(A, n, depth) ==
  IF n < MaxWrites
    THEN runTrigger([A EXCEPT !.f = reflectSet(data, AppField, n + 1)[AppField]], depth)
    ELSE A

\* trigger(target, "f"): the only effect registered for f is the component's.
runTrigger(A, depth) ==
  IF depth >= MaxDepth
    THEN [A EXCEPT !.err = TRUE]
    ELSE runEffect(A, depth + 1)

\* The renderer's and the component's variables after a call from the outside
\* that ended in state r.
Settle(r) ==
  /\ dom' = r.nodes
  /\ container' = r.stored
  /\ currentVnode' = r.cur
  /\ data' = [data EXCEPT ![AppField] = r.f]
  /\ log' = r.log
  /\ repl' = r.repl
  /\ threw' = r.err
  /\ rebound' = (rebound \/ r.rebound)
  /\ newArg' = r.newArg
  /\ prev' = r.prev
  /\ domBefore' = r.domBefore
  /\ shown' = r.shown
  /\ call' = IF r.runs > 1 THEN "nested" ELSE "single"
  /\ targetMap' = track(targetMap, AppTask, AppField)
  /\ everRead' = [everRead EXCEPT ![AppTask] = @ \cup {AppField}]

\* createApp(component, container).mount(): effect(() => update()) runs the
\* effect once, with whatever it nests.
MountApp ==
  /\ app = "none"
  /\ Idle
  /\ app' = "created"
  /\ created' = created \cup {AppTask}
  /\ \E r \in {runEffect(AppRun(data[AppField]), Len(stack))} : Settle(r)
  /\ UNCHANGED <<activeEffect, stack, exc, ret, note, todo, view>>

\* state.f = v by the application: the set trap stores v and trigger runs
\* the component's effect.
StateWrite(v) ==
  /\ app = "created"
  /\ Idle
  /\ Len(dom) < MaxHeap
  /\ AppTask \in Range(targetMap[AppField])
  /\ \E r \in {runTrigger(AppRun(reflectSet(data, AppField, v)[AppField]), Len(stack))} :
        Settle(r)
  /\ UNCHANGED <<app, activeEffect, created, stack, exc, ret, note, todo, view>>

InitRerender ==
  /\ dom = <<Node("#container", "")>>
  /\ container = <<>>
  /\ todo = <<>>
  /\ prev = <<>>
  /\ domBefore = <<>>
  /\ newArg = <<>>
  /\ log = <<>>
  /\ repl = <<>>
  /\ threw = FALSE
  /\ rebound = FALSE
  /\ app = "none"
  /\ currentVnode = <<>>
  /\ shown = <<>>
  /\ call = "none"
  /\ view \in [0..MaxWrites -> AppTrees]
  /\ activeEffect = Null
  /\ targetMap = [k \in Fields |-> <<>>]
  /\ data \in {[k \in Fields |-> IF k = AppField THEN v ELSE 0] : v \in 0..MaxWrites}
  /\ created = {}
  /\ stack = <<>>
  /\ exc = FALSE
  /\ everRead = [t \in Tasks |-> {}]
  /\ ret = NoRet
  /\ note = "none"

NextRerender ==
  \/ MountApp
  \/ \E v \in 0..MaxWrites : StateWrite(v)

SpecRerender == InitRerender /\ [][NextRerender]_vars

----------------------------------------------------------------------------
(***************************************************************************)
(* Claims about the reactivity core                                        *)
(***************************************************************************)

\* The task whose effectFn frame is innermost on the stack, or null.
RECURSIVE CurrentOf(_)
CurrentOf(stk) ==
  IF stk = <<>> THEN Null
  ELSE IF Last(stk).kind = "effect" THEN Last(stk).task
  ELSE CurrentOf(Front(stk))

C4_SlotRestored ==
  /\ activeEffect = CurrentOf(stack)
  /\ \A j \in 1..Len(stack) :
       stack[j].kind = "effect" => stack[j].prevEffect = CurrentOf(SubSeq(stack, 1, j - 1))
  /\ (stack = <<>> => activeEffect = Null)

\* Witness of C4: a top-level effect threw after registering a dependency, and
\* a read outside any task followed; only that effect's own read is registered.
C4_Witness ==
  /\ note = "readAfterThrow"
  /\ stack = <<>>
  /\ activeEffect = Null
  /\ created = {"T"}
  /\ targetMap["f"] = <<"T">>
  /\ targetMap["g"] = <<>>

\* C8: trigger(key) only ever invokes tasks that have read that key in some
\* execution, and a write during which no task body writes executes no task
\* that has never read the written key.
C8_NoCrossFieldLeak ==
  /\ \A j \in 1..(Len(stack) - 1) :
       (stack[j].kind = "trigger" /\ stack[j + 1].kind = "effect")
         => stack[j].key \in everRead[stack[j + 1].task]
  /\ \A t \in Tasks :
       (ret.kind = "returned" /\ ~ret.dirty /\ ret.key \notin everRead[t])
         => ret.cnt[t] = 0

\* Witness of C8: T has only ever read f; a write to g re-ran U and not T.
C8_Witness ==
  /\ ret.kind = "returned"
  /\ ret.key = "g"
  /\ everRead["T"] = {"f"}
  /\ targetMap["f"] = <<"T">>
  /\ ret.snap = {"U"}
  /\ ret.cnt["U"] = 1
  /\ ret.cnt["T"] = 0

\* C10: a task is in a key's dependency set at most once however often it read
\* the key, so a write that no task body interleaves with another write runs it
\* at most once; and no step taken while no task is current changes a
\* dependency set.
C10_RegisteredOnce ==
  /\ [](\A k \in Fields : NoDup(targetMap[k]))
  /\ [](ret.kind = "returned" /\ ~ret.dirty => \A t \in Tasks : ret.cnt[t] <= 1)
  /\ [][activeEffect = Null => targetMap' = targetMap]_vars

\* Witness of C10: T reads f twice within one execution, having read it in an
\* earlier execution too (the write to f re-runs it), and is registered once.
C10_Witness ==
  /\ Len(stack) = 2
  /\ stack[1].kind = "trigger"
  /\ stack[1].key = "f"
  /\ stack[2].kind = "effect"
  /\ stack[2].task = "T"
  /\ stack[2].nops = 2
  /\ ~stack[1].dirty
  /\ everRead["T"] = {"f"}
  /\ targetMap["f"] = <<"T">>

----------------------------------------------------------------------------
(***************************************************************************)
(* Claims about the renderer. After a render call that patched, prev holds  *)
(* the old tree (with its bound nodes), newArg the tree handed in,          *)
(* container the new tree with its bound nodes, domBefore / dom the heap    *)
(* before / after, and log the backend calls the patch issued.              *)
(***************************************************************************)

\* The last render call reconciled an old root against a new root of the same kind.
PatchedSameKind == prev # <<>> /\ newArg # <<>> /\ prev[1].tag = newArg[1].tag

OldKids == prev[1].children
NewKids == newArg[1].children
\* The new children with the nodes the patch bound to them.
BoundKids == container[1].children
RootEl == prev[1].el
LiveKids == dom[RootEl].kids

AllKeyed(ch) ==
  /\ \A i \in 1..Len(ch) : ~IsText(ch[i]) /\ ch[i].key # Undefined
  /\ \A i, j \in 1..Len(ch) : ch[i].key = ch[j].key => i = j
AllPlain(ch) == \A i \in 1..Len(ch) : ~IsText(ch[i]) /\ ch[i].key = Undefined
KeysOf(ch) == {ch[i].key : i \in 1..Len(ch)}
\* The position of the child with key k in a list of keyed children.
Pos(ch, k) == CHOOSE i \in 1..Len(ch) : ch[i].key = k

\* The backend calls that create or remove nodes.
Structural(o) == o.op \in {"createElement", "createTextNode", "removeChild"}
Count(sq, P(_)) == Cardinality({i \in 1..Len(sq) : P(sq[i])})

\* The parent's live children are exactly the new children's bound nodes, in order.
LiveOrderIsNew ==
  /\ Len(LiveKids) = Len(BoundKids)
  /\ \A i \in 1..Len(BoundKids) : LiveKids[i] = BoundKids[i].el

\* new is a permutation of old's keys with the same kinds
IsPermutation ==
  /\ AllKeyed(OldKids) /\ AllKeyed(NewKids)
  /\ KeysOf(OldKids) = KeysOf(NewKids)
  /\ \A i \in 1..Len(OldKids) : NewKids[Pos(NewKids, OldKids[i].key)].tag = OldKids[i].tag

\* C1 as stated: after patching a keyed list against a permutation of it (same
\* keys, same kinds) the live children are in the new order, each new child is
\* bound to the node of the old child with its key, and no node was created
\* or removed.
C1_KeyedReorder ==
  (PatchedSameKind /\ IsPermutation) =>
    /\ ~threw
    /\ LiveOrderIsNew
    /\ \A i \in 1..Len(OldKids) : BoundKids[Pos(NewKids, OldKids[i].key)].el = OldKids[i].el
    /\ Count(log, Structural) = 0

\* The tree as the application built it: no node bound yet.
RECURSIVE Unbound(_)
Unbound(v) ==
  [v EXCEPT !.el = NoEl, !.children = [i \in 1..Len(v.children) |-> Unbound(v.children[i])]]

\* C2 as stated: patching a materialized tree against a structural copy of it
\* issues no backend call at all.
C2_IdempotentPatch ==
  (prev # <<>> /\ newArg # <<>> /\ Unbound(prev[1]) = newArg[1]) => (~threw /\ log = <<>>)

\* ---- attribute diff of the reused root node
IsAttrCall(o) ==
  o.el = RootEl
  /\ o.op \in {"setAttribute", "removeAttribute", "addEventListener", "removeEventListener"}
\* The attribute and listener calls the patch issued on the root, in order.
AttrCalls == LET Is(o) == IsAttrCall(o) IN SelectSeq(log, Is)
\* What the spec's attribute diff issues for one name, in order.
ExpectedCalls(name, oldProps, newProps) ==
  LET inOld == name \in DOMAIN oldProps
      inNew == name \in DOMAIN newProps
  IN IF inNew /\ inOld /\ oldProps[name] = newProps[name] THEN <<>>
     ELSE IF inNew /\ startsWithOn(name)
       THEN (IF inOld THEN <<Op("removeEventListener", RootEl, NoEl, "click", oldProps[name], "")>>
             ELSE <<>>)
            \o <<Op("addEventListener", RootEl, NoEl, "click", newProps[name], "")>>
     ELSE IF inNew THEN <<Op("setAttribute", RootEl, NoEl, name, newProps[name], "")>>
     ELSE IF inOld /\ startsWithOn(name)
       THEN <<Op("removeEventListener", RootEl, NoEl, "click", oldProps[name], "")>>
     ELSE IF inOld THEN <<Op("removeAttribute", RootEl, NoEl, name, 0, "")>>
     ELSE <<>>
CallsFor(name) ==
  LET ev == IF startsWithOn(name) THEN "click" ELSE name
      Is(o) == o.name = ev
  IN SelectSeq(AttrCalls, Is)

\* C5: on a reused node the patch issues, for each attribute name, exactly the
\* calls the diff of that name requires: one set (or remove-old-listener then
\* add-listener) if the value is new or changed, one remove if the name is
\* gone, and nothing if the value is unchanged; and no other attribute call.
C5_AttributeDiffMinimal ==
  PatchedSameKind =>
    /\ \A name \in AttrNames \cup {"key"} :
         CallsFor(name) = ExpectedCalls(name, prev[1].props, newArg[1].props)
    /\ Len(AttrCalls) = Cardinality({i \in 1..Len(log) : log[i].el = RootEl
                                        /\ log[i].op \notin {"appendChild", "insertBefore",
                                                             "removeChild"}})

\* Witness of C5: old {a:1, b:2, onClick:1}, new {a:1, b:1, onClick:2}: b is
\* set, the listener is rebound, a is not touched.
C5_Witness ==
  /\ PatchedSameKind
  /\ prev[1].props = [n \in {"a", "b", "onClick"} |-> IF n = "b" THEN 2 ELSE 1]
  /\ newArg[1].props = [n \in {"a", "b", "onClick"} |-> IF n = "onClick" THEN 2 ELSE 1]
  /\ Len(AttrCalls) = 3
  /\ dom[RootEl].attrs = [n \in {"a", "b"} |-> 1]
  /\ dom[RootEl].lis = {<<"click", 2>>}

\* ---- keyed insertion and removal
\* the keys common to both lists appear in the same relative order
SameRelativeOrder ==
  \A a, b \in KeysOf(OldKids) \cap KeysOf(NewKids) :
    Pos(OldKids, a) < Pos(OldKids, b) => Pos(NewKids, a) < Pos(NewKids, b)
\* each key common to both lists has the same kind in both
SameKinds ==
  \A k \in KeysOf(OldKids) \cap KeysOf(NewKids) :
    OldKids[Pos(OldKids, k)].tag = NewKids[Pos(NewKids, k)].tag
\* The node was created by the last render call.
Fresh(el) == el > Len(domBefore)

\* the keys common to both lists whose kind is the same in both
Kept == {k \in KeysOf(OldKids) \cap KeysOf(NewKids) :
           OldKids[Pos(OldKids, k)].tag = NewKids[Pos(NewKids, k)].tag}
KeyedOutcome ==
  /\ ~threw
  /\ \A i \in 1..Len(OldKids) :
       OldKids[i].key \notin Kept => dom[OldKids[i].el].parent = NoEl
  /\ \A j \in 1..Len(NewKids) :
       IF NewKids[j].key \in Kept
         THEN BoundKids[j].el = OldKids[Pos(OldKids, NewKids[j].key)].el
         ELSE Fresh(BoundKids[j].el)
  /\ Count(log, LAMBDA o : o.op = "createElement")
       = Cardinality(KeysOf(NewKids) \ Kept)
  /\ LiveOrderIsNew

\* C6: for keyed lists with distinct keys whose common keys keep their
\* relative order, the nodes of vanished keys are removed, every common key
\* keeps its node, one node is created per new key, and the live children end
\* in the new order. A common key whose kind changed is read the way the
\* replacement on kind mismatch works: its old node is removed and its new
\* child is bound to a fresh node.
C6_KeyedInsertRemove ==
  (PatchedSameKind /\ AllKeyed(OldKids) /\ AllKeyed(NewKids) /\ SameRelativeOrder)
    => KeyedOutcome

\* C6 restricted to lists in which each common key has the same kind in the
\* old and the new list.
C6_KeyedInsertRemoveSameKinds ==
  (PatchedSameKind /\ AllKeyed(OldKids) /\ AllKeyed(NewKids) /\ SameRelativeOrder
     /\ SameKinds)
    => KeyedOutcome

\* Witness of C6: old [1, 2], new [3, 2, ...]: a key vanished, a key was kept,
\* and a new key landed before the kept one.
C6_Witness ==
  /\ PatchedSameKind /\ AllKeyed(OldKids) /\ AllKeyed(NewKids)
  /\ SameRelativeOrder /\ SameKinds
  /\ Len(OldKids) = 2 /\ OldKids[1].key = 1 /\ OldKids[2].key = 2
  /\ Len(NewKids) >= 2 /\ NewKids[1].key = 3 /\ NewKids[2].key = 2
  /\ ~threw
  /\ LiveKids[2] = OldKids[2].el
  /\ Fresh(LiveKids[1])
  /\ dom[OldKids[1].el].parent = NoEl

\* ---- replacement on kind mismatch
\* C7: every patch of an old node against a new node of another kind leaves a
\* freshly created node of the new kind exactly where the old node was among
\* its siblings, the old node gone from them and the other siblings as they were.
C7_ReplaceInPlace ==
  \A n \in 1..Len(repl) :
    LET e == repl[n] IN
      /\ e.ok
      /\ Fresh(e.newEl)
      /\ dom[e.newEl].tag = e.tag
      /\ e.oldEl \in Range(e.before)
      /\ Len(e.after) = Len(e.before)
      /\ \A i \in 1..Len(e.before) :
           e.after[i] = IF e.before[i] = e.oldEl THEN e.newEl ELSE e.before[i]

\* C7 restricted to replacements whose old node was attached to a parent when
\* patch was called.
C7_ReplaceInPlaceAttached ==
  \A n \in 1..Len(repl) :
    LET e == repl[n] IN
      e.parent # NoEl =>
        /\ e.ok
        /\ Fresh(e.newEl)
        /\ dom[e.newEl].tag = e.tag
        /\ e.oldEl \in Range(e.before)
        /\ Len(e.after) = Len(e.before)
        /\ \A i \in 1..Len(e.before) :
             e.after[i] = IF e.before[i] = e.oldEl THEN e.newEl ELSE e.before[i]

\* Witness of C7: a child with a sibling on each side was replaced.
C7_Witness ==
  \E n \in 1..Len(repl) :
    /\ repl[n].ok
    /\ Len(repl[n].before) = 3
    /\ repl[n].before[2] = repl[n].oldEl
    /\ repl[n].after[2] = repl[n].newEl

\* ---- unkeyed shrink
\* C9: for lists of unkeyed elements, old of length m and new of length n < m:
\* each of the first n new children is bound to the old child's node if the
\* kinds match and to a fresh node otherwise, the nodes of old children n+1..m
\* are removed, no old node of a matching pair is removed, and the live
\* children are the n new children in order.
C9_UnkeyedShrink ==
  (PatchedSameKind /\ AllPlain(OldKids) /\ AllPlain(NewKids) /\ Len(NewKids) < Len(OldKids))
    =>
    /\ ~threw
    /\ LiveOrderIsNew
    /\ \A i \in 1..Len(NewKids) :
         IF OldKids[i].tag = NewKids[i].tag
           THEN BoundKids[i].el = OldKids[i].el
           ELSE Fresh(BoundKids[i].el) /\ dom[OldKids[i].el].parent = NoEl
    /\ \A i \in (Len(NewKids) + 1)..Len(OldKids) : dom[OldKids[i].el].parent = NoEl
    /\ Count(log, LAMBDA o : o.op = "removeChild")
         = (Len(OldKids) - Len(NewKids))
           + Cardinality({i \in 1..Len(NewKids) : OldKids[i].tag # NewKids[i].tag})

\* Witness of C9: old [X, Y, Z], new [X']: Y and Z removed, X patched in place.
C9_Witness ==
  /\ PatchedSameKind /\ AllPlain(OldKids) /\ AllPlain(NewKids)
  /\ Len(OldKids) = 3 /\ Len(NewKids) = 1
  /\ OldKids[1].tag = NewKids[1].tag
  /\ ~threw
  /\ LiveKids = <<OldKids[1].el>>
  /\ dom[OldKids[2].el].parent = NoEl
  /\ dom[OldKids[3].el].parent = NoEl

\* ---- bound nodes
\* Every descriptor of the tree (strings have no slot) has a bound node.
RECURSIVE AllBound(_)
AllBound(v) ==
  /\ v.el # NoEl
  /\ \A i \in 1..Len(v.children) : IsText(v.children[i]) \/ AllBound(v.children[i])

\* No two keyed children of the list carry the same key.
DistinctKeys(ch) ==
  \A i, j \in 1..Len(ch) :
    (~IsText(ch[i]) /\ ~IsText(ch[j]) /\ ch[i].key # Undefined /\ ch[i].key = ch[j].key)
      => i = j

\* The last render call returned normally.
Returned == newArg # <<>> /\ ~threw

\* The old/new child pairs the children diff reconciled with each other: by
\* key if a new child has a key, by index otherwise.
Pairs ==
  IF hasKeyedChildren(NewKids)
    THEN {<<i, keyToNewIndex(NewKids, OldKids[i].key)>> :
            i \in {n \in 1..Len(OldKids) :
                     /\ ~IsText(OldKids[n]) /\ OldKids[n].key # Undefined
                     /\ keyToNewIndex(NewKids, OldKids[n].key) # 0}}
    ELSE {<<i, i>> : i \in {n \in 1..Len(OldKids) :
                              /\ n <= Len(NewKids)
                              /\ ~IsText(OldKids[n]) /\ ~IsText(NewKids[n])}}

\* Every reconciled pair of the same kind shares the old descriptor's node.
ReconciledShareNode ==
  PatchedSameKind =>
    /\ container[1].el = prev[1].el
    /\ \A pr \in Pairs :
         OldKids[pr[1]].tag = NewKids[pr[2]].tag => BoundKids[pr[2]].el = OldKids[pr[1]].el

\* C11: the trees the application has not rendered yet carry no bound node; no
\* assignment ever changes a binding that is already there, and the stored
\* tree's descriptors stay bound; and after a render that returns normally on
\* trees whose sibling keys are distinct, every descriptor of the new tree is
\* bound and every new descriptor reconciled against an old one of its kind
\* is bound to the old one's node.
C11_BoundNode ==
  /\ \A i \in 1..Len(todo) : Unbound(todo[i]) = todo[i]
  /\ ~rebound
  /\ (container # <<>> => AllBound(container[1]))
  /\ (Returned /\ (prev # <<>> => DistinctKeys(OldKids)) /\ DistinctKeys(NewKids))
       => (AllBound(container[1]) /\ ReconciledShareNode)

\* C11 restricted to runs in which no rendered list carries a key twice.
C11_BoundNodeDistinctKeys ==
  (/\ \A i \in 1..Len(todo) : DistinctKeys(todo[i].children)
   /\ newArg # <<>> => DistinctKeys(NewKids)
   /\ prev # <<>> => DistinctKeys(OldKids))
    => C11_BoundNode

\* Witness of C11: a keyed list whose first key changed kind and whose second
\* key was kept, patched normally: the first child is bound to a fresh node,
\* the second to the old child's node.
C11_Witness ==
  /\ PatchedSameKind /\ Returned
  /\ AllKeyed(OldKids) /\ AllKeyed(NewKids)
  /\ Len(OldKids) = 2 /\ Len(NewKids) = 2
  /\ OldKids[1].key = NewKids[1].key /\ OldKids[1].tag # NewKids[1].tag
  /\ OldKids[2].key = NewKids[2].key /\ OldKids[2].tag = NewKids[2].tag
  /\ Fresh(BoundKids[1].el)
  /\ BoundKids[2].el = OldKids[2].el
  /\ AllBound(container[1])

\* ---- the tree stored on the container
\* C12: a render call on a container without a stored tree mounts (the root
\* node is new and appended to the container), a render call on a container
\* with a stored tree of the same kind reuses the stored tree's root node, and
\* the tree stored on the container is always the tree most recently displayed
\* in it, also after the re-renders of a component created on it.
C12_StoredTreeCurrent ==
  /\ (call = "render" /\ ~threw /\ prev = <<>>)
       => (Fresh(container[1].el) /\ Last(log) = Op("appendChild", ContainerEl,
                                                     container[1].el, "", 0, ""))
  /\ (call = "render" /\ ~threw /\ prev # <<>> /\ prev[1].tag = newArg[1].tag)
       => container[1].el = prev[1].el
  /\ container = shown

\* ---- the index algorithm
\* Neither list carries a key: patchChildren takes the index algorithm.
Unkeyed(ch) == \A i \in 1..Len(ch) : IsText(ch[i]) \/ ch[i].key = Undefined
CommonLength == IF Len(OldKids) < Len(NewKids) THEN Len(OldKids) ELSE Len(NewKids)
\* Position i holds a string in one list and an element descriptor in the other.
ShapeMismatch(i) == IsText(OldKids[i]) # IsText(NewKids[i])
\* The parent's live children before the call.
OldLiveKids == domBefore[RootEl].kids
\* Live node el is what child describes: a text node with its text, or an
\* element of its kind.
Materialises(el, child) ==
  IF IsText(child) THEN dom[el].tag = "#text" /\ dom[el].text = child.text
  ELSE dom[el].tag = child.tag
\* The parent's live children are the new children, in order.
LiveMatchesNew ==
  /\ Len(LiveKids) = Len(NewKids)
  /\ \A j \in 1..Len(NewKids) : Materialises(LiveKids[j], NewKids[j])

\* C13: when unkeyed old and new lists differ in shape at a position i of the
\* shared prefix, the call returns normally, the old live node at position i
\* is removed, a new node for the new child is at position i of the parent's
\* live children, and the live children match the new list in order.
C13_IndexShapeMismatch ==
  (/\ PatchedSameKind /\ call = "render"
   /\ Unkeyed(OldKids) /\ Unkeyed(NewKids)
   /\ \E i \in 1..CommonLength : ShapeMismatch(i))
    =>
    /\ ~threw
    /\ LiveMatchesNew
    /\ \A i \in 1..CommonLength :
         ShapeMismatch(i) =>
           /\ dom[OldLiveKids[i]].parent = NoEl
           /\ Fresh(LiveKids[i])
           /\ Materialises(LiveKids[i], NewKids[i])

\* The example of C13, old ['x', Z], new [Y, Z']: the call returns normally,
\* the text node is removed, and the live children end as Z, Y.
C13_Witness ==
  /\ PatchedSameKind /\ call = "render" /\ ~threw
  /\ Len(OldKids) = 2 /\ Len(NewKids) = 2
  /\ IsText(OldKids[1]) /\ AllPlain(<<OldKids[2], NewKids[1], NewKids[2]>>)
  /\ dom[OldLiveKids[1]].parent = NoEl
  /\ LiveKids = <<OldKids[2].el, BoundKids[1].el>>
  /\ Fresh(BoundKids[1].el)
  /\ BoundKids[2].el = OldKids[2].el

\* The last render patched two lists without keys, the new one longer, whose
\* shared prefix has the same shapes.
Grew ==
  /\ PatchedSameKind /\ call = "render"
  /\ Unkeyed(OldKids) /\ Unkeyed(NewKids)
  /\ Len(NewKids) > Len(OldKids)
  /\ \A i \in 1..Len(OldKids) : ~ShapeMismatch(i)
\* Each extra new child is a fresh live node of its kind after the prefix.
ExtrasAppended ==
  /\ ~threw
  /\ LiveMatchesNew
  /\ \A j \in (Len(OldKids) + 1)..Len(NewKids) :
       Fresh(LiveKids[j]) /\ dom[LiveKids[j]].parent = RootEl

\* C14: when the unkeyed new list is longer than the old one, the call returns
\* normally and each extra new child is materialised and appended in order
\* after the reconciled prefix: a string as a text node with that text, an
\* element descriptor as an element of its kind.
C14_IndexGrowth == Grew => ExtrasAppended

\* C14 for extra children that are all element descriptors.
C14_IndexGrowthStructured ==
  (Grew /\ \A j \in (Len(OldKids) + 1)..Len(NewKids) : ~IsText(NewKids[j]))
    => ExtrasAppended

\* The example of C14, old ['x'], new ['x', 'y']: the call throws after
\* creating an element for the tag `undefined`, and the parent still has the
\* one text node.
C14_Witness ==
  /\ Grew /\ threw
  /\ Len(OldKids) = 1 /\ Len(NewKids) = 2
  /\ IsText(OldKids[1]) /\ IsText(NewKids[2])
  /\ Last(log) = Op("createElement", Len(dom), NoEl, "undefined", 0, "")
  /\ LiveKids = OldLiveKids

----------------------------------------------------------------------------
(***************************************************************************)
(* Further claims about the reactivity core. When an execution of a task   *)
(* has just returned, ret holds the task and the keys that execution read. *)
(***************************************************************************)

\* C15 as stated: a task is in a key's dependency set if and only if its most
\* recent execution read that key; here for the task whose execution has just
\* returned.
C15_DependencyExact ==
  ret.kind = "ran" =>
    \A k \in Fields : (ret.task \in Range(targetMap[k])) <=> (k \in ret.reads)

\* C15 amended: a task is in a key's dependency set if and only if some
\* execution of it so far read that key; in particular every key read by an
\* execution still running, or by the execution that has just returned, has
\* the task in its set.
C15_DependencyOfSomeExecution ==
  /\ \A t \in Tasks, k \in Fields : (t \in Range(targetMap[k])) <=> (k \in everRead[t])
  /\ (ret.kind = "ran" => \A k \in ret.reads : ret.task \in Range(targetMap[k]))
  /\ \A j \in 1..Len(stack) :
       stack[j].kind = "effect"
         => \A k \in stack[j].reads : stack[j].task \in Range(targetMap[k])

\* Witness of C15: T's execution that has just returned read g only, an
\* earlier one read f, and T is in both dependency sets.
C15_Witness ==
  /\ ret.kind = "ran"
  /\ ret.task = "T"
  /\ ret.reads = {"g"}
  /\ stack = <<>>
  /\ everRead["T"] = {"f", "g"}
  /\ "T" \in Range(targetMap["f"])
  /\ "T" \in Range(targetMap["g"])

IsPrefix(s, t) == Len(s) <= Len(t) /\ SubSeq(t, 1, Len(s)) = s

\* C16: no step removes a task from a dependency set or changes the order of
\* its members, and when a write returns every task that was in the written
\* key's set when the write began has been executed again and is still in the
\* set, including a task whose execution just before the write did not read
\* the key.
C16_OnlyGrow ==
  /\ [][\A k \in Fields : IsPrefix(targetMap[k], targetMap'[k])]_vars
  /\ [](ret.kind = "returned" =>
          /\ ret.stale \subseteq ret.snap
          /\ \A t \in ret.snap : ret.cnt[t] >= 1 /\ t \in Range(targetMap[ret.key]))

\* Witness of C16: T's execution returned without reading f, then f was
\* written: the write re-ran T, which is still registered for f.
C16_Witness ==
  /\ ret.kind = "returned"
  /\ ret.key = "f"
  /\ ret.stale = {"T"}
  /\ ret.cnt["T"] = 1
  /\ "T" \in Range(targetMap["f"])

C18_NoBatching ==
  /\ ret.kind = "returned"
       => \A t \in ret.snap : Cardinality({j \in 1..Len(ret.order) : ret.order[j] = t}) = 1
  /\ (ret.kind = "returned" /\ stack = <<>> /\ ~ret.dirty /\ ret.prevw.kind = "returned")
       => \A t \in ret.prevw.snap \cap ret.snap :
            t \in ret.prevw.once /\ ret.cnt[t] = 1
  /\ (stack # <<>> /\ stack[1].kind = "trigger" /\ ~stack[1].dirty)
       => data = [stack[1].before EXCEPT ![stack[1].key] = stack[1].val]

\* Witness of C18: f and then g were written from outside, both changing value;
\* T, registered for both, ran once in each write.
C18_Witness ==
  /\ ret.kind = "returned" /\ stack = <<>> /\ ~ret.dirty
  /\ ret.prevw.kind = "returned"
  /\ ret.prevw.key = "f" /\ ret.key = "g"
  /\ "T" \in ret.prevw.once
  /\ "T" \in ret.snap
  /\ ret.cnt["T"] = 1
  /\ note = "writeReturned"
  /\ data = [k \in Fields |-> 1]

\* C19: in every trigger call in progress, the tasks its forEach has invoked so
\* far are the first members of the key's dependency set in the set's order
\* (the order of first registration, as sets only grow at the end); at most
\* one of them is still executing, the one invoked last, directly above the
\* trigger's frame, and all invoked before it have completed; and a write
\* that returns has invoked the whole set in that order.
C19_TriggerOrder ==
  /\ \A j \in 1..Len(stack) :
       stack[j].kind = "trigger" =>
         /\ IsPrefix(stack[j].order, targetMap[stack[j].key])
         /\ Len(stack[j].order) = stack[j].i - 1
         /\ \A n \in 1..(Len(stack[j].order) - 1) : stack[j].cnt[stack[j].order[n]] >= 1
         /\ j < Len(stack) =>
              /\ stack[j + 1].kind = "effect"
              /\ stack[j + 1].task = Last(stack[j].order)
         /\ (j = Len(stack) /\ ~exc) =>
              \A t \in Range(stack[j].order) : stack[j].cnt[t] >= 1
  /\ ret.kind = "returned" => ret.order = targetMap[ret.key]

\* Witness of C19: U was registered for f before T, and T for g before U; a
\* write to f has invoked U first and T second.
C19_Witness ==
  /\ ret.kind = "returned"
  /\ ret.key = "f"
  /\ ret.order = <<"U", "T">>
  /\ targetMap["f"] = <<"U", "T">>
  /\ targetMap["g"] = <<"T", "U">>

\* C20: every cascade started by a write runs to completion after finitely
\* many task executions: the call stack is never exhausted, so no write ends
\* with a RangeError.
C20_CascadeCompletes == ret.kind # "rangeError"

\* The cascade in which C20 fails: T reads f and writes f in every execution;
\* a write to f from outside re-runs T, whose write re-runs T, and so on until
\* the call stack is exhausted, and the write from outside ends with the
\* RangeError.
C20_Witness ==
  /\ ret.kind = "rangeError"
  /\ note = "writeThrew"
  /\ stack = <<>>
  /\ created = {"T"}
  /\ targetMap["f"] = <<"T">>
  /\ targetMap["g"] = <<>>

----------------------------------------------------------------------------
(***************************************************************************)
(* Further claims about the renderer                                       *)
(***************************************************************************)

\* Backend call o puts node el under a parent.
Attaches(o, el) == o.op \in {"appendChild", "insertBefore"} /\ o.other = el

\* Replacement n of the last render call removed its old node for good: no
\* later backend call of the same render attaches that node, and the node has
\* no parent when the call ends.
StaysRemoved(n) ==
  /\ dom[repl[n].oldEl].parent = NoEl
  /\ \A i, j \in 1..Len(log) :
       (/\ i < j
        /\ log[i] = Op("removeChild", repl[n].parent, repl[n].oldEl, "", 0, ""))
         => ~Attaches(log[j], repl[n].oldEl)

\* C21: a live node that patch detached because the kinds of the old and the
\* new descriptor differ is never attached again during the same render call.
C21_RemovedStayRemoved ==
  \A n \in 1..Len(repl) : repl[n].ok => StaysRemoved(n)

\* C21 for render calls whose new child list carries no key (the index
\* algorithm), and for replacements of the root.
C21_RemovedStayRemovedUnkeyed ==
  (newArg # <<>> /\ ~hasKeyedChildren(NewKids))
    => \A n \in 1..Len(repl) : repl[n].ok => StaysRemoved(n)

\* The example of C21, old [p(k1), li(k2)], new [li(k1), li(k2)]: the call
\* returns normally and the parent ends with three live children, the old p
\* among them.
C21_Witness ==
  /\ PatchedSameKind /\ call = "render" /\ ~threw
  /\ AllKeyed(OldKids) /\ AllKeyed(NewKids)
  /\ Len(OldKids) = 2 /\ Len(NewKids) = 2
  /\ OldKids[1].key = 1 /\ NewKids[1].key = 1 /\ OldKids[1].tag # NewKids[1].tag
  /\ OldKids[2].key = 2 /\ NewKids[2].key = 2
  /\ Len(repl) = 1 /\ repl[1].ok /\ repl[1].oldEl = OldKids[1].el
  /\ Len(LiveKids) = 3
  /\ dom[OldKids[1].el].parent = RootEl

\* Every child of the list is an element descriptor (no string).
Structured(ch) == \A i \in 1..Len(ch) : ~IsText(ch[i])

\* The parent's live children are exactly the nodes bound to the new children.
LiveAreBound ==
  /\ ~threw
  /\ Range(LiveKids) = {BoundKids[i].el : i \in 1..Len(BoundKids)}
  /\ Len(LiveKids) = Len(BoundKids)

\* C22: after a render call that patched lists of element descriptors, the
\* parent's live children are exactly the nodes bound to the new children: no
\* node of an old child without a counterpart in the new list is still
\* attached, whether or not the old children carry keys.
C22_NoLeakedChildren ==
  (PatchedSameKind /\ call = "render" /\ Structured(OldKids) /\ Structured(NewKids))
    => LiveAreBound

\* C22 for lists that are both without keys, or both keyed with distinct keys
\* and every common key keeping its kind.
C22_NoLeakedChildrenSameKeying ==
  (/\ PatchedSameKind /\ call = "render"
   /\ \/ AllPlain(OldKids) /\ AllPlain(NewKids)
      \/ AllKeyed(OldKids) /\ AllKeyed(NewKids) /\ SameKinds)
    => LiveAreBound

\* The example of C22, old [X, Y] without keys, new [A(key 1)]: the call
\* returns normally and the parent ends with X, Y and A.
C22_Witness ==
  /\ PatchedSameKind /\ call = "render" /\ ~threw
  /\ Len(OldKids) = 2 /\ AllPlain(OldKids)
  /\ Len(NewKids) = 1 /\ AllKeyed(NewKids)
  /\ Fresh(BoundKids[1].el)
  /\ LiveKids = <<OldKids[1].el, OldKids[2].el, BoundKids[1].el>>
  /\ ~\E o \in Range(log) : o.op = "removeChild"

----------------------------------------------------------------------------
\* ---- the tree displayed after a re-entrant render
\* The container shows `tree`: currentVnode is that tree, bound, and the
\* container's only child is its root node with one node per child of the
\* tree, of that child's kind, in order.
Displays(tree) ==
  /\ currentVnode # <<>>
  /\ shown = currentVnode
  /\ Unbound(currentVnode[1]) = tree
  /\ dom[ContainerEl].kids = <<currentVnode[1].el>>
  /\ dom[currentVnode[1].el].tag = tree.tag
  /\ Len(dom[currentVnode[1].el].kids) = Len(tree.children)
  /\ \A i \in 1..Len(tree.children) :
        dom[dom[currentVnode[1].el].kids[i]].tag = tree.children[i].tag

\* C23: once the outermost effect execution has returned, the tree held as
\* currentVnode and shown in the container is the one the render function
\* produces from the final value of state.f, also when the render function
\* wrote state.f and a nested execution rendered in between.
C23_FinalStateDisplayed ==
  (call \in {"single", "nested"} /\ ~threw) => Displays(view[data[AppField]])

\* What the code guarantees: the final state is displayed when the render
\* function did not write during the call, and after a nested render the
\* container shows the tree of the value the outermost execution read.
C23_FinalStateDisplayedWithoutWrite ==
  /\ (call = "single" /\ ~threw) => Displays(view[data[AppField]])
  /\ (call = "nested" /\ ~threw) => Displays(newArg[1])

\* The component is mounted with state.f = 0 and two different trees for 0
\* and 1: the render function read 0 and wrote 1, the nested execution mounted
\* the tree of 1, and the outer execution then patched it into the tree of 0,
\* which is what the container shows while state.f is 1.
C23_Witness ==
  /\ call = "nested"
  /\ ~threw
  /\ data[AppField] = MaxWrites
  /\ view[MaxWrites] # view[MaxWrites - 1]
  /\ prev # <<>>
  /\ Unbound(prev[1]) = view[MaxWrites]
  /\ Displays(view[MaxWrites - 1])

====
